---- MODULE Spec2Model ----
(***************************************************************************)
(* Model of the command bridge of ligature-pad (src-tauri/src/main.rs):    *)
(* five commands invoked by the front-end, three of which perform one      *)
(* blocking HTTP request against http://localhost:4200 and reshape the     *)
(* response, two of which only print their arguments.                      *)
(*                                                                         *)
(* Strings are TLA+ strings; format!, split and filter are computed on     *)
(* them character by character.  Each invocation runs on a thread; its     *)
(* locals are pc/cmd/name/input/req/res/text/result, indexed by thread.    *)
(***************************************************************************)
EXTENDS Naturals, Sequences, FiniteSets

VARIABLES pc, cmd, name, input, req, nreq, res, text, result, printed,
          testName, out

vars == <<pc, cmd, name, input, req, nreq, res, text, result, printed,
          testName, out>>

(* ---------------------------- bounds ---------------------------------- *)
NumThreads == 2
MaxTestNameLen == 2
MaxBodyLen == 4

Threads == 1..NumThreads

(* ------------------------- input domains ------------------------------ *)
RECURSIVE StrUpTo(_, _)
StrUpTo(alphabet, n) ==
  IF n = 0 THEN {""}
  ELSE LET S == StrUpTo(alphabet, n - 1)
       IN  S \cup {s \o c : s \in S, c \in alphabet}

Names == {"a", "b"}

Inputs == {"INSERT x"}

Queries == {"SELECT x"}

Statuses == {200, 500}

Bodies == {"", "a", "Error"}

HttpCommands == {"add_dataset", "remove_dataset", "all_datasets"}

LogCommands == {"run_write", "run_query"}

Commands == HttpCommands \cup LogCommands

(* --------------------------- values ----------------------------------- *)
NoReq == [verb |-> "none", url |-> ""]

None == [tag |-> "None"]

Ok(field, v) == [tag |-> "Ok", val |-> [k \in {field} |-> v]]

Err(cause) == [tag |-> "Err", cause |-> cause]

StringResult(s) == [tag |-> "String", s |-> s]

VecResult(v) == [tag |-> "Vec", v |-> v]

UnitResult == [tag |-> "Unit"]

(* --------------------- request construction --------------------------- *)
BaseUrl == "http://localhost:4200"

\* Mutant: the dataset name is left out of the POST url.
AddDatasetRequestNoName(nm) ==
  [verb |-> "POST", url |-> BaseUrl \o "/datasets/"]

AddDatasetRequest(nm) ==
  [verb |-> "POST", url |-> BaseUrl \o "/datasets/" \o nm]

\* Mutant: remove_dataset copied from add_dataset with the verb left as POST.
RemoveDatasetRequestPost(nm) ==
  [verb |-> "POST", url |-> BaseUrl \o "/datasets/" \o nm]

RemoveDatasetRequest(nm) ==
  [verb |-> "DELETE", url |-> BaseUrl \o "/datasets/" \o nm]

AllDatasetsRequest == [verb |-> "GET", url |-> BaseUrl \o "/datasets"]

(* ----------------------- result shaping ------------------------------- *)
IndexOfNewline(s) ==
  IF \E i \in 1..Len(s) : SubSeq(s, i, i) = "\n"
  THEN CHOOSE i \in 1..Len(s) :
         /\ SubSeq(s, i, i) = "\n"
         /\ \A j \in 1..(i - 1) : SubSeq(s, j, j) # "\n"
  ELSE 0

RECURSIVE Split(_)
Split(s) ==
  LET i == IndexOfNewline(s)
  IN  IF i = 0 THEN <<s>>
      ELSE <<SubSeq(s, 1, i - 1)>> \o Split(SubSeq(s, i + 1, Len(s)))

IsNonEmpty(x) == x # ""

\* Mutant: the filter on empty segments is missing.
SplitLinesKeepEmpty(s) == Split(s)

SplitLines(s) == SelectSeq(Split(s), IsNonEmpty)

\* Mutant: the response status is checked and a 4xx/5xx becomes "Error".
AddDatasetMatchChecksStatus(r, tx) ==
  IF r.tag = "Ok"
  THEN IF tx.tag = "Ok" /\ r.val.status < 400
       THEN StringResult("Added " \o tx.val.body)
       ELSE StringResult("Error")
  ELSE StringResult("Error")

AddDatasetMatch(r, tx) ==
  IF r.tag = "Ok"
  THEN IF tx.tag = "Ok" THEN StringResult("Added " \o tx.val.body)
       ELSE StringResult("Error")
  ELSE StringResult("Error")

\* Mutant: the body is returned without the "Removed " prefix.
RemoveDatasetMatchNoPrefix(r, tx) ==
  IF r.tag = "Ok"
  THEN IF tx.tag = "Ok" THEN StringResult(tx.val.body)
       ELSE StringResult("Error")
  ELSE StringResult("Error")

RemoveDatasetMatch(r, tx) ==
  IF r.tag = "Ok"
  THEN IF tx.tag = "Ok" THEN StringResult("Removed " \o tx.val.body)
       ELSE StringResult("Error")
  ELSE StringResult("Error")

\* Mutant: a failed listing returns the empty list.
AllDatasetsMatchEmptyOnErr(r, tx) ==
  IF r.tag = "Ok"
  THEN IF tx.tag = "Ok" THEN VecResult(SplitLines(tx.val.body))
       ELSE VecResult(<<>>)
  ELSE VecResult(<<>>)

AllDatasetsMatch(r, tx) ==
  IF r.tag = "Ok"
  THEN IF tx.tag = "Ok" THEN VecResult(SplitLines(tx.val.body))
       ELSE VecResult(<<"Error">>)
  ELSE VecResult(<<"Error">>)

Match(c, r, tx) ==
  CASE c = "add_dataset" -> AddDatasetMatch(r, tx)
    [] c = "remove_dataset" -> RemoveDatasetMatch(r, tx)
    [] c = "all_datasets" -> AllDatasetsMatch(r, tx)

RequestOf(c, nm) ==
  CASE c = "add_dataset" -> AddDatasetRequest(nm)
    [] c = "remove_dataset" -> RemoveDatasetRequest(nm)
    [] c = "all_datasets" -> AllDatasetsRequest

AllDatasetsPrint(tx) == <<tx.val.body>>

RunWritePrint(ds, inp) == <<"Running Write on " \o ds \o ":\n" \o inp>>

RunQueryPrint(ds, inp) == <<"Running Query on " \o ds \o ":\n" \o inp>>

(* ---------------------------- state ----------------------------------- *)
ThreadsIdle ==
  /\ pc = [t \in Threads |-> "idle"]
  /\ cmd = [t \in Threads |-> "none"]
  /\ name = [t \in Threads |-> ""]
  /\ input = [t \in Threads |-> ""]
  /\ req = [t \in Threads |-> NoReq]
  /\ nreq = [t \in Threads |-> 0]
  /\ res = [t \in Threads |-> None]
  /\ text = [t \in Threads |-> None]
  /\ result = [t \in Threads |-> None]
  /\ printed = [t \in Threads |-> <<>>]

Init ==
  /\ ThreadsIdle
  /\ testName = ""
  /\ out = <<>>

(* --------------------------- actions ---------------------------------- *)
\* The front-end invokes command c on thread t; the handler's locals are fresh.
Invoke(t, c, nm, inp) ==
  /\ pc[t] = "idle"
  /\ pc' = [pc EXCEPT ![t] = "call"]
  /\ cmd' = [cmd EXCEPT ![t] = c]
  /\ name' = [name EXCEPT ![t] = nm]
  /\ input' = [input EXCEPT ![t] = inp]
  /\ req' = [req EXCEPT ![t] = NoReq]
  /\ nreq' = [nreq EXCEPT ![t] = 0]
  /\ res' = [res EXCEPT ![t] = None]
  /\ text' = [text EXCEPT ![t] = None]
  /\ result' = [result EXCEPT ![t] = None]
  /\ printed' = [printed EXCEPT ![t] = <<>>]
  /\ UNCHANGED <<testName, out>>

InvokeAddDataset(t) == \E nm \in Names : Invoke(t, "add_dataset", nm, "")

InvokeRemoveDataset(t) == \E nm \in Names : Invoke(t, "remove_dataset", nm, "")

InvokeAllDatasets(t) == Invoke(t, "all_datasets", "", "")

InvokeRunWrite(t) ==
  \E nm \in Names, inp \in Inputs : Invoke(t, "run_write", nm, inp)

InvokeRunQuery(t) ==
  \E nm \in Names, inp \in Queries : Invoke(t, "run_query", nm, inp)

\* client.post(..).send() / client.delete(..).send() / reqwest::blocking::get(..):
\* the request leaves and the thread blocks on the response.
Send(t) ==
  /\ pc[t] = "call"
  /\ cmd[t] \in HttpCommands
  /\ req' = [req EXCEPT ![t] = RequestOf(cmd[t], name[t])]
  /\ nreq' = [nreq EXCEPT ![t] = nreq[t] + 1]
  /\ pc' = [pc EXCEPT ![t] = "send"]
  /\ UNCHANGED <<cmd, name, input, res, text, result, printed,
                 testName, out>>

\* send() returns Ok(response): the server answered with some status line.
SendOk(t, status) ==
  /\ pc[t] = "send"
  /\ res' = [res EXCEPT ![t] = Ok("status", status)]
  /\ pc' = [pc EXCEPT ![t] = "text"]
  /\ UNCHANGED <<cmd, name, input, req, nreq, text, result, printed,
                 testName, out>>

\* Mutant: a failed send is retried instead of being reported.
SendFailedRetry(t, cause) ==
  /\ pc[t] = "send"
  /\ res' = [res EXCEPT ![t] = Err(cause)]
  /\ pc' = [pc EXCEPT ![t] = "call"]
  /\ UNCHANGED <<cmd, name, input, req, nreq, text, result, printed,
                 testName, out>>

\* send() returns Err(e): the Err arm of the outer match produces the result.
SendFailed(t, cause) ==
  /\ pc[t] = "send"
  /\ res' = [res EXCEPT ![t] = Err(cause)]
  /\ result' = [result EXCEPT ![t] = Match(cmd[t], res'[t], text[t])]
  /\ pc' = [pc EXCEPT ![t] = "done"]
  /\ UNCHANGED <<cmd, name, input, req, nreq, text, printed,
                 testName, out>>

SendErr(t) == SendFailed(t, "connect")

\* Mutant: the client is built with its timeout disabled.
SendTimeoutDisabled(t) ==
  /\ pc[t] = "send"
  /\ FALSE
  /\ UNCHANGED vars

\* The blocking client is built with its defaults, no timeout is set by the
\* handler: the client's default request timeout ends a wait on a silent server.
SendTimeout(t) == SendFailed(t, "timeout")

\* Mutant: the decoded text goes through a buffer shared by all handlers.
TextOkSharedBuffer(t, body) ==
  /\ pc[t] = "text"
  /\ text' = [text EXCEPT ![t] = Ok("body", body)]
  /\ printed' = [printed EXCEPT ![t] =
                   IF cmd[t] = "all_datasets" THEN AllDatasetsPrint(text'[t])
                   ELSE printed[t]]
  /\ result' = [u \in Threads |->
                  IF u = t \/ pc[u] = "done"
                  THEN Match(cmd[t], res[t], text'[t]) ELSE result[u]]
  /\ pc' = [pc EXCEPT ![t] = "done"]
  /\ UNCHANGED <<cmd, name, input, req, nreq, res, testName, out>>

\* response.text() returns Ok(text).
TextOk(t, body) ==
  /\ pc[t] = "text"
  /\ text' = [text EXCEPT ![t] = Ok("body", body)]
  /\ printed' = [printed EXCEPT ![t] =
                   IF cmd[t] = "all_datasets" THEN AllDatasetsPrint(text'[t])
                   ELSE printed[t]]
  /\ result' = [result EXCEPT ![t] = Match(cmd[t], res[t], text'[t])]
  /\ pc' = [pc EXCEPT ![t] = "done"]
  /\ UNCHANGED <<cmd, name, input, req, nreq, res, testName, out>>

\* response.text() returns Err(_).
TextFailed(t, cause) ==
  /\ pc[t] = "text"
  /\ text' = [text EXCEPT ![t] = Err(cause)]
  /\ result' = [result EXCEPT ![t] = Match(cmd[t], res[t], text'[t])]
  /\ pc' = [pc EXCEPT ![t] = "done"]
  /\ UNCHANGED <<cmd, name, input, req, nreq, res, printed,
                 testName, out>>

TextErr(t) == TextFailed(t, "body")

TextTimeout(t) == TextFailed(t, "timeout")

\* Mutant: run_write posts its input to the server.
RunWriteSends(t) ==
  /\ pc[t] = "call"
  /\ cmd[t] = "run_write"
  /\ req' = [req EXCEPT ![t] = AddDatasetRequest(name[t])]
  /\ nreq' = [nreq EXCEPT ![t] = nreq[t] + 1]
  /\ printed' = [printed EXCEPT ![t] = RunWritePrint(name[t], input[t])]
  /\ result' = [result EXCEPT ![t] = UnitResult]
  /\ pc' = [pc EXCEPT ![t] = "done"]
  /\ UNCHANGED <<cmd, name, input, res, text, testName, out>>

RunWrite(t) ==
  /\ pc[t] = "call"
  /\ cmd[t] = "run_write"
  /\ printed' = [printed EXCEPT ![t] = RunWritePrint(name[t], input[t])]
  /\ result' = [result EXCEPT ![t] = UnitResult]
  /\ pc' = [pc EXCEPT ![t] = "done"]
  /\ UNCHANGED <<cmd, name, input, req, nreq, res, text, testName, out>>

RunQuery(t) ==
  /\ pc[t] = "call"
  /\ cmd[t] = "run_query"
  /\ printed' = [printed EXCEPT ![t] = RunQueryPrint(name[t], input[t])]
  /\ result' = [result EXCEPT ![t] = UnitResult]
  /\ pc' = [pc EXCEPT ![t] = "done"]
  /\ UNCHANGED <<cmd, name, input, req, nreq, res, text, testName, out>>

\* The handler returns: its frame is dropped and the thread is free again.
Return(t) ==
  /\ pc[t] = "done"
  /\ pc' = [pc EXCEPT ![t] = "idle"]
  /\ cmd' = [cmd EXCEPT ![t] = "none"]
  /\ name' = [name EXCEPT ![t] = ""]
  /\ input' = [input EXCEPT ![t] = ""]
  /\ req' = [req EXCEPT ![t] = NoReq]
  /\ nreq' = [nreq EXCEPT ![t] = 0]
  /\ res' = [res EXCEPT ![t] = None]
  /\ text' = [text EXCEPT ![t] = None]
  /\ result' = [result EXCEPT ![t] = None]
  /\ printed' = [printed EXCEPT ![t] = <<>>]
  /\ UNCHANGED <<testName, out>>

Next ==
  \E t \in Threads :
    \/ InvokeAddDataset(t)
    \/ InvokeRemoveDataset(t)
    \/ InvokeAllDatasets(t)
    \/ InvokeRunWrite(t)
    \/ InvokeRunQuery(t)
    \/ Send(t)
    \/ \E status \in Statuses : SendOk(t, status)
    \/ SendErr(t)
    \/ SendTimeout(t)
    \/ \E body \in Bodies : TextOk(t, body)
    \/ TextErr(t)
    \/ TextTimeout(t)
    \/ RunWrite(t)
    \/ RunQuery(t)
    \/ Return(t)

Spec == Init /\ [][Next]_vars

(* ------- add then remove against a server that echoes the name --------- *)
DatasetsPrefix == BaseUrl \o "/datasets/"

\* The stub server answers with the part of the request path after /datasets/.
TestNames == StrUpTo({"a", "b"}, MaxTestNameLen)

EchoBody(r) == SubSeq(r.url, Len(DatasetsPrefix) + 1, Len(r.url))

EchoInit ==
  /\ ThreadsIdle
  /\ testName \in TestNames
  /\ out = <<>>

TestAdd ==
  /\ pc[1] = "idle"
  /\ Len(out) = 0
  /\ Invoke(1, "add_dataset", testName, "")

TestRemove ==
  /\ pc[1] = "idle"
  /\ Len(out) = 1
  /\ Invoke(1, "remove_dataset", testName, "")

\* The handler returns and the front-end receives the returned value.
TestCollect ==
  /\ pc[1] = "done"
  /\ out' = Append(out, result[1].s)
  /\ pc' = [pc EXCEPT ![1] = "idle"]
  /\ cmd' = [cmd EXCEPT ![1] = "none"]
  /\ name' = [name EXCEPT ![1] = ""]
  /\ input' = [input EXCEPT ![1] = ""]
  /\ req' = [req EXCEPT ![1] = NoReq]
  /\ nreq' = [nreq EXCEPT ![1] = 0]
  /\ res' = [res EXCEPT ![1] = None]
  /\ text' = [text EXCEPT ![1] = None]
  /\ result' = [result EXCEPT ![1] = None]
  /\ printed' = [printed EXCEPT ![1] = <<>>]
  /\ UNCHANGED testName

EchoRespond == \E status \in Statuses : SendOk(1, status)

EchoText == TextOk(1, EchoBody(req[1]))

EchoNext ==
  \/ TestAdd
  \/ Send(1)
  \/ EchoRespond
  \/ EchoText
  \/ TestCollect
  \/ TestRemove

EchoSpec == EchoInit /\ [][EchoNext]_vars

(* ------ one handler at a time, over every short response body ---------- *)
LongBodies ==
  StrUpTo({"a", "b", "\n"}, MaxBodyLen) \cup {"Error", "a\nb\n\nc"}

SeqNext ==
  \/ InvokeAddDataset(1)
  \/ InvokeRemoveDataset(1)
  \/ InvokeAllDatasets(1)
  \/ InvokeRunWrite(1)
  \/ InvokeRunQuery(1)
  \/ Send(1)
  \/ \E status \in Statuses : SendOk(1, status)
  \/ SendErr(1)
  \/ SendTimeout(1)
  \/ \E body \in LongBodies : TextOk(1, body)
  \/ TextErr(1)
  \/ TextTimeout(1)
  \/ RunWrite(1)
  \/ RunQuery(1)
  \/ Return(1)

SeqSpec == Init /\ [][SeqNext]_vars

\* A handler that can take its next step takes it, and the client's timer
\* fires; nothing obliges the server to answer or the connection to break.
HandlerStep(t) == Send(t) \/ RunWrite(t) \/ RunQuery(t) \/ Return(t)

Timeout(t) == SendTimeout(t) \/ TextTimeout(t)

Fairness(t) == WF_vars(HandlerStep(t)) /\ WF_vars(Timeout(t))

SeqFairSpec == Init /\ [][SeqNext]_vars /\ Fairness(1)

(* ============================ properties ============================== *)
Succeeded(t) == pc[t] = "done" /\ res[t].tag = "Ok" /\ text[t].tag = "Ok"

Failed(t) == pc[t] = "done" /\ (res[t].tag = "Err" \/ text[t].tag = "Err")

Issued(t) == pc[t] \in {"send", "text", "done"}

StartsWith(s, prefix) ==
  Len(s) >= Len(prefix) /\ SubSeq(s, 1, Len(prefix)) = prefix

\* C1: add_dataset issues exactly one POST to
\* http://localhost:4200/datasets/{name}, and whenever the send succeeded and
\* the body decoded to text, the result is "Added " followed by that text,
\* whatever the status code of the response.
AddDatasetContract ==
  \A t \in Threads :
    cmd[t] = "add_dataset" =>
      /\ Issued(t) =>
           /\ nreq[t] = 1
           /\ req[t].verb = "POST"
           /\ req[t].url = "http://localhost:4200/datasets/" \o name[t]
      /\ Succeeded(t) =>
           /\ result[t].tag = "String"
           /\ result[t].s = "Added " \o text[t].val.body

AddDatasetRejectedWitness ==
  \E t \in Threads :
    /\ cmd[t] = "add_dataset"
    /\ Succeeded(t)
    /\ res[t].val.status = 500
    /\ text[t].val.body = "a\nb"
    /\ result[t].s = "Added a\nb"
    /\ req[t].url = "http://localhost:4200/datasets/b"

\* C2: remove_dataset issues exactly one DELETE to
\* http://localhost:4200/datasets/{name}; on a successful send with a decoded
\* body the result is "Removed " followed by the body (status not inspected),
\* and on a failure it is "Error", as for add_dataset.
RemoveDatasetContract ==
  \A t \in Threads :
    cmd[t] = "remove_dataset" =>
      /\ Issued(t) =>
           /\ nreq[t] = 1
           /\ req[t].verb = "DELETE"
           /\ req[t].url = "http://localhost:4200/datasets/" \o name[t]
      /\ Succeeded(t) =>
           /\ result[t].tag = "String"
           /\ result[t].s = "Removed " \o text[t].val.body
      /\ Failed(t) =>
           /\ result[t].tag = "String"
           /\ result[t].s = "Error"

RemoveDatasetWitness ==
  \E t \in Threads :
    /\ cmd[t] = "remove_dataset"
    /\ Succeeded(t)
    /\ res[t].val.status = 500
    /\ name[t] = "b"
    /\ req[t] = [verb |-> "DELETE", url |-> "http://localhost:4200/datasets/b"]
    /\ text[t].val.body = "a"
    /\ result[t].s = "Removed a"

IsNl(b, i) == SubSeq(b, i, i) = "\n"

HasNl(b) == \E i \in 1..Len(b) : IsNl(b, i)

\* Positions at which a maximal newline-free run of b starts.
RunStarts(b) ==
  {i \in 1..Len(b) : ~IsNl(b, i) /\ (i = 1 \/ IsNl(b, i - 1))}

RunEnd(b, i) ==
  CHOOSE j \in i..Len(b) :
    /\ \A k \in i..j : ~IsNl(b, k)
    /\ j = Len(b) \/ IsNl(b, j + 1)

KthRunStart(b, k) ==
  CHOOSE i \in RunStarts(b) :
    Cardinality({j \in RunStarts(b) : j < i}) = k - 1

\* C3: on a successful GET of http://localhost:4200/datasets with body b the
\* listing is the sequence of the maximal newline-free runs of b, in order:
\* no element is empty or holds a newline, duplicates are kept,
\* "a\nb\n\nc" gives <<"a","b","c">> and a body of newlines only gives <<>>.
AllDatasetsListing ==
  \A t \in Threads :
    cmd[t] = "all_datasets" =>
      /\ Issued(t) =>
           /\ req[t].verb = "GET"
           /\ req[t].url = "http://localhost:4200/datasets"
      /\ Succeeded(t) =>
           LET b == text[t].val.body
               v == result[t].v
           IN  /\ result[t].tag = "Vec"
               /\ Len(v) = Cardinality(RunStarts(b))
               /\ \A k \in 1..Len(v) :
                    /\ v[k] = SubSeq(b, KthRunStart(b, k),
                                     RunEnd(b, KthRunStart(b, k)))
                    /\ v[k] # ""
                    /\ ~HasNl(v[k])
               /\ b = "a\nb\n\nc" => v = <<"a", "b", "c">>
               /\ b = "a\na" => v = <<"a", "a">>
               /\ (\A i \in 1..Len(b) : IsNl(b, i)) => v = <<>>

AllDatasetsListingWitness ==
  \E t \in Threads :
    /\ cmd[t] = "all_datasets"
    /\ Succeeded(t)
    /\ text[t].val.body = "a\nb\n\nc"
    /\ result[t].v = <<"a", "b", "c">>

\* C4: whenever the send failed or the body could not be decoded,
\* add_dataset and remove_dataset return exactly "Error" and all_datasets
\* returns exactly <<"Error">>, whatever the cause; a finished HTTP command
\* has no other kind of outcome than a string or a list of strings.
FailureCollapsesToError ==
  \A t \in Threads :
    /\ pc[t] \in {"idle", "call", "send", "text", "done"}
    /\ (cmd[t] \in HttpCommands /\ pc[t] = "done") =>
         /\ Succeeded(t) \/ Failed(t)
         /\ result[t].tag = IF cmd[t] = "all_datasets" THEN "Vec" ELSE "String"
    /\ (cmd[t] \in {"add_dataset", "remove_dataset"} /\ Failed(t)) =>
         result[t].s = "Error"
    /\ (cmd[t] = "all_datasets" /\ Failed(t)) =>
         result[t].v = <<"Error">>

FailureWitness ==
  \E t \in Threads :
    /\ cmd[t] = "all_datasets" /\ Failed(t)
    /\ res[t].tag = "Err" /\ res[t].cause = "connect"
    /\ result[t].v = <<"Error">>

\* C5: for every dataset name n, add_dataset(n) followed by remove_dataset(n)
\* against a server that echoes the name of the request path hands the
\* front-end "Added n" and then "Removed n", in that order.
AddThenRemoveEchoes ==
  /\ Len(out) >= 1 => out[1] = "Added " \o testName
  /\ Len(out) >= 2 => out[2] = "Removed " \o testName
  /\ Len(out) <= 2

AddThenRemoveWitness ==
  /\ testName = "ab"
  /\ out = <<"Added ab", "Removed ab">>

\* C6: run_write and run_query never perform an HTTP request and return no
\* value: their step leaves every handler's request and response untouched,
\* prints one line built from the dataset and the input, and ends with the
\* unit result.
LogCommandsDoNoHttp ==
  /\ [](\A t \in Threads :
          cmd[t] \in LogCommands =>
            /\ nreq[t] = 0
            /\ req[t] = NoReq
            /\ res[t].tag = "None"
            /\ text[t].tag = "None"
            /\ pc[t] \in {"call", "done"}
            /\ pc[t] = "done" =>
                 /\ result[t].tag = "Unit"
                 /\ Len(printed[t]) = 1)
  /\ [][\A t \in Threads :
          (cmd[t] \in LogCommands /\ pc[t] = "call" /\ pc'[t] = "done") =>
            /\ UNCHANGED <<req, nreq, res, text>>
            /\ \A u \in Threads \ {t} : result'[u] = result[u]]_vars

LogCommandsWitness ==
  \E t, u \in Threads :
    /\ cmd[t] = "run_write" /\ pc[t] = "done"
    /\ name[t] = "a" /\ input[t] = "INSERT x"
    /\ printed[t] = <<"Running Write on a:\nINSERT x">>
    /\ cmd[u] = "run_query" /\ pc[u] = "done"
    /\ printed[u] = <<"Running Query on b:\nSELECT x">>

\* C7: under every interleaving of concurrent add_dataset calls, a step of
\* one handler leaves the locals of every other handler unchanged, and each
\* finished call's result is built from its own response only.
NoSharedStateLeak ==
  /\ [](\A t \in Threads :
          (cmd[t] = "add_dataset" /\ pc[t] = "done") =>
            \/ Succeeded(t) /\ result[t].s = "Added " \o text[t].val.body
            \/ Failed(t) /\ result[t].s = "Error")
  /\ [][\A t \in Threads :
          pc'[t] = pc[t] =>
            /\ cmd'[t] = cmd[t] /\ name'[t] = name[t] /\ input'[t] = input[t]
            /\ req'[t] = req[t] /\ nreq'[t] = nreq[t] /\ res'[t] = res[t]
            /\ text'[t] = text[t] /\ result'[t] = result[t]
            /\ printed'[t] = printed[t]]_vars

ConcurrentAddWitness ==
  \E t, u \in Threads :
    /\ t # u
    /\ cmd[t] = "add_dataset" /\ name[t] = "a" /\ Succeeded(t)
    /\ cmd[u] = "add_dataset" /\ name[u] = "b" /\ Succeeded(u)
    /\ text[t].val.body = "a" /\ result[t].s = "Added a"
    /\ text[u].val.body = "Error" /\ result[u].s = "Added Error"

\* C8: an invocation performs at most one HTTP request: an HTTP command that
\* has got past its send has issued exactly one, also after a failure (no
\* retry), a logging command none; and an invocation starts with no request,
\* response or result kept from an earlier one.
AtMostOneRequest ==
  \A t \in Threads :
    /\ nreq[t] <= 1
    /\ (cmd[t] \in HttpCommands /\ Issued(t)) => nreq[t] = 1
    /\ cmd[t] \in LogCommands => nreq[t] = 0
    /\ pc[t] = "call" =>
         /\ nreq[t] = 0 /\ req[t] = NoReq
         /\ res[t].tag = "None" /\ text[t].tag = "None"
         /\ result[t].tag = "None" /\ printed[t] = <<>>

NoRetryWitness ==
  \E t \in Threads :
    /\ cmd[t] = "remove_dataset"
    /\ Failed(t)
    /\ res[t].tag = "Err"
    /\ res[t].cause = "connect"
    /\ nreq[t] = 1

\* C9 as written: no timeout ends a call, so a call blocked on the server
\* leaves its wait only because the server answered or the connection failed.
OnlyServerEndsWait ==
  [][\A t \in Threads :
       /\ (pc[t] = "send" /\ pc'[t] # "send") =>
            \/ res'[t].tag = "Ok"
            \/ res'[t].tag = "Err" /\ res'[t].cause = "connect"
       /\ (pc[t] = "text" /\ pc'[t] # "text") =>
            \/ text'[t].tag = "Ok"
            \/ text'[t].tag = "Err" /\ text'[t].cause = "body"]_vars

\* C9 amended: the handlers set no timeout, the client's default one applies:
\* every call terminates, also one the server never answers, and a call
\* ended by the timeout returns "Error" (<<"Error">> for all_datasets).
CallsTerminate ==
  /\ \A t \in Threads : (pc[t] \in {"call", "send", "text"}) ~> (pc[t] = "done")
  /\ [](\A t \in Threads :
          (/\ pc[t] = "done"
           /\ \/ res[t].tag = "Err" /\ res[t].cause = "timeout"
              \/ text[t].tag = "Err" /\ text[t].cause = "timeout") =>
            IF cmd[t] = "all_datasets" THEN result[t].v = <<"Error">>
            ELSE result[t].s = "Error")

TimeoutWitness ==
  \E t \in Threads :
    /\ cmd[t] = "add_dataset"
    /\ pc[t] = "done"
    /\ res[t].tag = "Err" /\ res[t].cause = "timeout"
    /\ result[t].s = "Error"

\* C10: for add_dataset and remove_dataset the result is "Error" exactly when
\* the send failed or the body failed to decode; every success result starts
\* with "Added " or "Removed ", also for the empty body and the body "Error".
ErrorIffFailure ==
  \A t \in Threads :
    (cmd[t] \in {"add_dataset", "remove_dataset"} /\ pc[t] = "done") =>
      /\ (result[t].s = "Error") <=> Failed(t)
      /\ Succeeded(t) =>
           StartsWith(result[t].s,
                      IF cmd[t] = "add_dataset" THEN "Added " ELSE "Removed ")

ErrorBodyWitness ==
  \E t \in Threads :
    /\ cmd[t] = "remove_dataset" /\ Succeeded(t)
    /\ text[t].val.body = "Error" /\ result[t].s = "Removed Error"

====
